---- MODULE Spec2Model ----
(***************************************************************************)
(* Model of the event loop of tinywasm/devwatch (src/watchEvents.go):      *)
(* the content-aware debounce of file notifications, the ownership-based   *)
(* dispatch to the registered handlers, and the reload timer shared by the *)
(* loop and the consumer goroutine.                                        *)
(*                                                                         *)
(* Time.  The code only ever reads differences of instants                 *)
(* (now.Sub(lastInfo.lastTime), the timer's remaining delay), so a         *)
(* time.Time value is represented by its distance in milliseconds before   *)
(* the present: time.Now() is 0, and Tick moves every stored instant       *)
(* TickStep further into the past, saturating at Horizon, the first value  *)
(* beyond the debounce window.  The timer's deadline is the time that is   *)
(* left until it.                                                          *)
(*                                                                         *)
(* Timer.  reloadTimer is a time.Timer.  go.mod (src/watchEvents.go:294)   *)
(* says go 1.24.4, so the channel of the timer is synchronous by default   *)
(* (Go 1.23 and later): a firing is handed to a receiver or not sent at    *)
(* all, and Stop() of a timer that has expired without being received      *)
(* returns true and discards the firing.  With GODEBUG=asynctimerchan=1    *)
(* the channel has a buffer of one as in earlier releases.  Both settings  *)
(* are modelled; asynctimerchan is chosen when the program starts.         *)
(*                                                                         *)
(* Files.  Paths are regular files and Dirs are directories, which exist   *)
(* or not; a path is a sequence of segments.  The streams of the watcher   *)
(* are closed by the exit path of the loop, or under it (SpecStreamsFair). *)
(***************************************************************************)
EXTENDS Integers, Sequences, FiniteSets, TLC

----------------------------------------------------------------------------
(* Program constants *)

debounceWindow == 50

wait == 50

(* Bounds of the model *)

\* notifications the notification source delivers in one run
MaxEvents == 3

\* notifications, and error values, that may be waiting in a stream
MaxQueue == 1

\* notifications that may queue up while the loop is busy (SpecFifo)
MaxBacklog == 2

\* notifications delivered in a run about directories
MaxDirEvents == 2

\* distinct byte contents a file may have (1..MaxContent)
MaxContent == 2

\* granularity of the clock, and the first age beyond the window
TickStep == debounceWindow \div 2

Horizon == debounceWindow + TickStep

----------------------------------------------------------------------------
(* Paths, extensions, configuration *)

ExtGo == <<".", "g", "o">>

ExtCss == <<".", "c", "s", "s">>

\* "src/main.go" and "src/style.css": a path is its sequence of segments
PathGo == << <<"s", "r", "c">>, <<"m", "a", "i", "n">> \o ExtGo >>

PathCss == << <<"s", "r", "c">>, <<"s", "t", "y", "l", "e">> \o ExtCss >>

Paths == {PathGo, PathCss}

\* "src/.main.go": a hidden file in the watched directory, which Contain
\* excludes; its extension is .go
PathHidden == << <<"s", "r", "c">>, <<".", "m", "a", "i", "n">> \o ExtGo >>

\* the regular files
Files == Paths \cup {PathHidden}

\* the directory of the two files, a package with nested subdirectories in
\* it, and an excluded directory with a subdirectory
DirSrc == << <<"s", "r", "c">> >>

DirPkg == DirSrc \o << <<"p", "k", "g">> >>

DirSub == DirPkg \o << <<"a">> >>

DirSubSub == DirSub \o << <<"b">> >>

DirGit == DirSrc \o << <<".", "g", "i", "t">> >>

DirGitHooks == DirGit \o << <<"h", "o", "o", "k", "s">> >>

Dirs == {DirSrc, DirPkg, DirSub, DirSubSub, DirGit, DirGitHooks}

\* every path the program meets
Names == Files \cup Dirs

\* the directories the notification source reports: nothing inside the
\* excluded directory is watched, so no entry of it is reported
ReportedDirs == Dirs \ {DirGitHooks}

\* the names in the lexical order in which filepath.Walk visits them
WalkOrder ==
    <<DirSrc, DirGit, DirGitHooks, PathHidden, PathGo, DirPkg, DirSub, DirSubSub, PathCss>>

\* filepath.Dir
FilepathDir(path) == SubSeq(path, 1, Len(path) - 1)

\* path is root or lies below it
Below(root, path) == Len(root) <= Len(path) /\ SubSeq(path, 1, Len(root)) = root

\* index of the last "." of a segment, 0 when there is none
LastDot(seg) ==
    LET dots == {i \in DOMAIN seg : seg[i] = "."}
    IN  IF dots = {} THEN 0 ELSE CHOOSE i \in dots : \A j \in dots : j <= i

\* filepath.Ext: the suffix of the last element that starts at its last dot
FilepathExt(path) ==
    IF Len(path) = 0 THEN <<>>
    ELSE LET seg == path[Len(path)]
             d == LastDot(seg)
         IN  IF d = 0 THEN <<>> ELSE SubSeq(seg, d, Len(seg))

\* slices.Contains
SlicesContains(s, x) == \E i \in DOMAIN s : s[i] = x

\* the ordered handler list given at construction: a Go build handler and a
\* handler for Go and stylesheet files
FilesEventHandlers ==
    << [MainInputFileRelativePath |-> PathGo, SupportedExtensions |-> <<ExtGo>>],
       [MainInputFileRelativePath |-> PathCss, SupportedExtensions |-> <<ExtCss, ExtGo>>] >>

NumHandlers == Len(FilesEventHandlers)

\* WatchConfig.UnobservedFiles: the excluded segment names (".git")
UnobservedFiles == {<<".", "g", "i", "t">>}

\* an exclusion that looks at the last segment only
ContainLastSegment(path) ==
    LET name == path[Len(path)]
    IN  Len(path) > 0 /\ ((Len(name) > 0 /\ name[1] = ".") \/ name \in UnobservedFiles)

\* DevWatch.Contain: some segment is hidden or is an unobserved name
Contain(path) ==
    \E i \in DOMAIN path :
        \/ (Len(path[i]) > 0 /\ path[i][1] = ".")
        \/ path[i] \in UnobservedFiles

\* GetFileName: the last element of the path; fails on an empty path
GetFileNameErr(path) == Len(path) = 0

GetFileName(path) == path[Len(path)]

\* fsnotify.Op.String() and strings.ToLower of it
OpString(op) ==
    CASE op = "Write" -> "WRITE"
      [] op = "Remove" -> "REMOVE"
      [] op = "Rename" -> "RENAME"
      [] OTHER -> "CREATE"

ToLower(s) ==
    CASE s = "WRITE" -> "write"
      [] s = "REMOVE" -> "remove"
      [] s = "RENAME" -> "rename"
      [] OTHER -> "create"

Ops == {"Write", "Remove"}

\* the operations reported for directories
DirOps == {"Create", "Write", "Remove"}

----------------------------------------------------------------------------
(* Files and fingerprints *)

\* fs[p] = NoFile: p does not exist; otherwise the identity of its bytes
NoFile == 0

Contents == 1..MaxContent

\* var zeroHash [32]byte: the digest whose bytes are all zero
zeroHash == <<>>

\* sha256 of a content: distinct contents have distinct digests, and none of
\* them is the zero digest
Sha256(bytes) == <<"sha256", bytes>>

----------------------------------------------------------------------------
(* The exclusion predicate on path strings *)

\* the two path separators
Separators == {"/", "\\"}

\* the pieces of str between the characters of separators
SplitOn(str, separators) ==
    LET pos == {i \in DOMAIN str : str[i] \in separators}
        n == Cardinality(pos)
        cut(k) == IF k = 0 THEN 0
                  ELSE IF k = n + 1 THEN Len(str) + 1
                  ELSE CHOOSE i \in pos : Cardinality({j \in pos : j < i}) = k - 1
    IN  [k \in 1..(n + 1) |-> SubSeq(str, cut(k - 1) + 1, cut(k) - 1)]

\* a split on "/" alone
SplitSlashOnly(str) == SplitOn(str, {"/"})

\* the segments of a path string, split on both separators
SplitPath(str) == SplitOn(str, Separators)

\* DevWatch.Contain on the string of a path, with the names that
\* WatchConfig.UnobservedFiles() returns
ContainPath(str, unobserved) ==
    LET segments == SplitPath(str)
    IN  \E i \in DOMAIN segments :
            \/ (Len(segments[i]) > 0 /\ segments[i][1] = ".")
            \/ segments[i] \in unobserved

\* the string of a path given as segments, joined with the separators seps
RECURSIVE Join(_, _)
Join(segs, seps) ==
    IF Len(segs) = 0 THEN <<>>
    ELSE IF Len(segs) = 1 THEN segs[1]
    ELSE segs[1] \o <<seps[1]>> \o Join(Tail(segs), Tail(seps))

\* the table of TestContain (src/watcher_test.go)
TestContain ==
    <<
       [path |-> <<".", "g", "i", "t", "i", "g", "n", "o", "r", "e">>,
        unobserved |-> {},
        expected |-> TRUE],
       [path |-> <<"t", "e", "s", "t", "/", ".", "g", "i", "t">>,
        unobserved |-> {<<".", "g", "i", "t">>},
        expected |-> TRUE],
       [path |-> <<"t", "e", "s", "t", "/", "m", "a", "i", "n", ".", "g",
                 "o">>,
        unobserved |-> {<<".", "g", "i", "t">>},
        expected |-> FALSE],
       [path |-> <<"C", ":", "\\", "U", "s", "e", "r", "s", "\\", "C", "e",
                 "s", "a", "r", "\\", "P", "a", "c", "k", "a", "g", "e",
                 "s", "\\", "I", "n", "t", "e", "r", "n", "a", "l", "\\",
                 "g", "o", "d", "e", "v", "\\", "t", "e", "s", "t", "\\",
                 "m", "a", "n", "u", "a", "l", "\\", ".", "g", "i", "t",
                 "\\", "o", "b", "j", "e", "c", "t", "s", "\\", "p", "a",
                 "c", "k">>,
        unobserved |-> {<<".", "g", "i", "t">>},
        expected |-> TRUE],
       [path |-> <<"/", "U", "s", "e", "r", "s", "/", "C", "e", "s", "a",
                 "r", "/", "P", "a", "c", "k", "a", "g", "e", "s", "/",
                 "I", "n", "t", "e", "r", "n", "a", "l", "/", "g", "o",
                 "d", "e", "v", "/", "t", "e", "s", "t", "/", "m", "a",
                 "n", "u", "a", "l", "/", ".", "g", "i", "t", "/", "o",
                 "b", "j", "e", "c", "t", "s", "/", "p", "a", "c", "k">>,
        unobserved |-> {<<".", "g", "i", "t">>},
        expected |-> TRUE],
       [path |-> <<"t", "e", "s", "t", "/", "m", "a", "n", "u", "a", "l",
                 "/", ".", "g", "i", "t", "/", "o", "b", "j", "e", "c",
                 "t", "s", "/", "p", "a", "c", "k">>,
        unobserved |-> {<<".", "g", "i", "t">>},
        expected |-> TRUE],
       [path |-> <<"/", "h", "o", "m", "e", "/", "u", "s", "e", "r", "/",
                 "D", "e", "v", "/", "P", "k", "g", "/", "M", "i", "n",
                 "e", "/", "g", "o", "d", "e", "v", "/", "t", "e", "s",
                 "t", "/", "m", "a", "n", "u", "a", "l", "/", ".", "g",
                 "i", "t", "/", "o", "b", "j", "e", "c", "t", "s", "/",
                 "d", "c">>,
        unobserved |-> {<<".", "g", "i", "t">>},
        expected |-> TRUE],
       [path |-> <<"t", "e", "s", "t", "/", "g", "i", "t", "h", "u", "b",
                 "-", "i", "n", "t", "e", "g", "r", "a", "t", "i", "o",
                 "n", "/", "c", "o", "d", "e", ".", "g", "o">>,
        unobserved |-> {<<".", "g", "i", "t">>},
        expected |-> FALSE] >>

\* segments for the paths that are generated
SegGit == <<".", "g", "i", "t">>

SegGitignore == <<".", "g", "i", "t", "i", "g", "n", "o", "r", "e">>

SegGithub == <<"g", "i", "t", "h", "u", "b", "-", "i", "n", "t", "e", "g", "r", "a", "t", "i", "o", "n">>

SegMyGit == <<"m", "y", ".", "g", "i", "t">>

SegTest == <<"t", "e", "s", "t">>

SegMain == <<"m", "a", "i", "n", ".", "g", "o">>

Segments == {SegGit, SegGitignore, SegGithub, SegMyGit, SegTest, SegMain, <<>>}

\* longest generated path, in segments
MaxSegments == 3

\* the configurations of UnobservedFiles that are tried
Unobserved == {{}, {SegGit}, {SegTest}}

\* Contain has not returned
NoResult == [called |-> FALSE, result |-> FALSE]

\* no call of Contain
NoContain == [row |-> 0, segs |-> <<>>, path |-> <<>>, unobserved |-> {}]

\* the call of Contain of row r of the table
TableInput(r) ==
    [row |-> r, segs |-> <<>>, path |-> TestContain[r].path,
     unobserved |-> TestContain[r].unobserved]

\* a call of Contain on the segments segs joined with the separators seps
GeneratedInput(segs, seps, unobserved) ==
    [row |-> 0, segs |-> segs, path |-> Join(segs, seps), unobserved |-> unobserved]

----------------------------------------------------------------------------
VARIABLES
    asynctimerchan, \* GODEBUG asynctimerchan=1: the timer channel is buffered
    streams,        \* h.watcher.Events and h.watcher.Errors: open or closed, and
                    \* the error values not yet received
    fs,             \* the file system: Files -> NoFile or a content
    events,         \* h.watcher.Events: the notifications not yet received
    emitted,        \* notifications delivered so far
    exitChan,       \* h.ExitChan holds a value
    exitSent,       \* the exit signal was sent
    pc,             \* position of the event loop goroutine
    cur,            \* event, eventType, isDeleteEvent of the event in dispatch
    now,            \* the local now of watchEvents (age of time.Now() at receipt)
    idx,            \* index of the range loop over h.FilesEventHandlers
    processedSuccessfully,
    atLeastOneGoHandlerSucceeded,
    lastEventInfo,  \* map[string]fileEventKey
    reloadTimer,    \* h.reloadTimer: nil, or armed and the time left to its deadline
    timerC,         \* values buffered in h.reloadTimer.C (asynctimerchan only)
    reloadMutex,    \* holder of h.reloadMutex
    stopped,        \* result of the last h.reloadTimer.Stop()
    consumer,       \* position of the goroutine of lines 31-36
    reloadCount,    \* calls of h.BrowserReload
    \* history of the run, read by the properties only
    hProc,          \* per path: age of the receipt of its last processed notification,
                    \* its fingerprint then, whether its bytes changed since then
                    \* and since its record was written
    hDec,           \* what the loop decided for the last notification it received
    hLog,           \* oracle answers, handler calls and results of the last dispatch,
                    \* and its path if it took longer than the window and has
                    \* only just returned
    hSched,         \* calls of scheduleReload, bursts, firings
    hExit,          \* what the exit signal found
    \* directories
    dirs,           \* the directories that exist
    FolderEvents,   \* h.FolderEvents: "nil" or "set"
    watched,        \* the paths added to h.watcher after watchEvents started
    folderLog,      \* the number of calls of h.FolderEvents.NewFolderEvent
    hDir,           \* history: what handleDirectoryEvent did for the last
                    \* notification received
    \* the exclusion predicate called on its own
    containIn,      \* the path and the configuration Contain is called with
    containOut      \* whether Contain was called, and its result

vars == <<asynctimerchan, streams, fs, events, emitted, exitChan, exitSent, pc, cur, now, idx,
          processedSuccessfully, atLeastOneGoHandlerSucceeded, lastEventInfo,
          reloadTimer, timerC, reloadMutex, stopped, consumer, reloadCount,
          hProc, hDec, hLog, hSched, hExit,
          dirs, FolderEvents, watched, folderLog, hDir, containIn, containOut>>

containVars == <<containIn, containOut>>

dirVars == <<dirs, FolderEvents, watched, folderLog, hDir>>

progVars == <<pc, cur, now, idx, processedSuccessfully, atLeastOneGoHandlerSucceeded,
              lastEventInfo>>

timerVars == <<reloadTimer, timerC, reloadMutex, stopped>>

envVars == <<asynctimerchan, streams, fs, events, emitted, exitChan, exitSent>>

histVars == <<hProc, hDec, hLog, hSched, hExit>>

----------------------------------------------------------------------------
(* Values *)

\* both streams of the watcher are open and carry no error value
OpenStreams == [Events |-> "open", Errors |-> "open", errors |-> 0]

\* the streams after h.watcher.Close()
ClosedStreams == [streams EXCEPT !.Events = "closed", !.Errors = "closed"]

NoInfo == [exists |-> FALSE, lastTime |-> 0, lastHash |-> zeroHash]

NoEvent == [Name |-> <<>>, eventType |-> "", isDeleteEvent |-> FALSE]

NoLog == [oracle |-> [i \in 1..NumHandlers |-> "notasked"],
          invoked |-> <<>>,
          result |-> [i \in 1..NumHandlers |-> "none"],
          scheduled |-> 0, slowFor |-> <<>>]

NoDec == [kind |-> "none", Name |-> <<>>, prev |-> "none", same |-> FALSE,
          sameSinceRecord |-> FALSE, unreadable |-> FALSE,
          rec |-> "none", hashDiffers |-> FALSE, delete |-> FALSE]

\* the instant time.Now() returns, as an age
TimeNow == 0

\* how a notification relates to an earlier instant of age a (-1: there is none)
Relation(a) ==
    IF a < 0 THEN "none" ELSE IF a <= debounceWindow THEN "within" ELSE "beyond"

\* an instant one tick later: its age grows, up to Horizon
Older(t) == IF t + TickStep > Horizon THEN Horizon ELSE t + TickStep

\* t.Sub(u), the time from u to t, for the ages of two instants
Sub(t, u) == u - t

Max0(n) == IF n < 0 THEN 0 ELSE n

----------------------------------------------------------------------------
(* calculateFileHash: the digest of the content, zeroHash when the file *)
(* cannot be opened or cannot be read (a directory) *)

calculateFileHash(filePath) ==
    IF filePath \in Files /\ fs[filePath] # NoFile
    THEN Sha256(fs[filePath]) ELSE zeroHash

\* the window without its last instant
WithinDebounceWindowStrict(timeSinceLastEvent) == timeSinceLastEvent < debounceWindow

\* the test of line 84
WithinDebounceWindow(timeSinceLastEvent) == timeSinceLastEvent <= debounceWindow

\* a debounce by time alone
ShouldProcessTimeOnly(name) ==
    LET lastInfo == lastEventInfo[name]
    IN  ~ ( /\ lastInfo.exists
            /\ WithinDebounceWindow(Sub(TimeNow, lastInfo.lastTime)) )

\* a debounce whose window is measured from the newest record of any path
ShouldProcessAnyPath(name) ==
    LET lastInfo == lastEventInfo[name]
    IN  ~ ( /\ lastInfo.exists
            /\ \E q \in Names :
                  /\ lastEventInfo[q].exists
                  /\ WithinDebounceWindow(Sub(TimeNow, lastEventInfo[q].lastTime))
            /\ calculateFileHash(name) = lastInfo.lastHash )

\* lines 78-96: the decision of the smart debounce for an event received at TimeNow
ShouldProcess(name) ==
    LET lastInfo == lastEventInfo[name]
    IN  ~ ( /\ lastInfo.exists
            /\ WithinDebounceWindow(Sub(TimeNow, lastInfo.lastTime))
            /\ calculateFileHash(name) = lastInfo.lastHash )

\* a record made before dispatch, of the content the event was received with
NewRecordBeforeDispatch(name) ==
    [exists |-> TRUE, lastTime |-> now, lastHash |-> hProc[name].recvHash]

\* a record stamped when it is written instead of when the event was received
NewRecordStampedLate(name) ==
    [exists |-> TRUE, lastTime |-> TimeNow, lastHash |-> calculateFileHash(name)]

\* lines 112-115: the record written after dispatch
NewRecord(name) ==
    [exists |-> TRUE, lastTime |-> now, lastHash |-> calculateFileHash(name)]

----------------------------------------------------------------------------
(* The timer *)

NilTimer == [isNil |-> TRUE, armed |-> FALSE, when |-> 0]

\* an armed timer whose deadline has passed and whose firing was not sent yet
TimerDue == reloadTimer.armed /\ reloadTimer.when = 0

\* firings on their way to a reload: the armed timer's, one in the channel,
\* one in the hands of the consumer
Pending ==
    (IF reloadTimer.armed THEN 1 ELSE 0) + timerC
       + (IF consumer = "trigger" THEN 1 ELSE 0)

\* the runtime can send the firing now: into the buffer when the channel is
\* buffered, to a goroutine blocked in <-t.C when it is synchronous
FireEnabled == TimerDue /\ (asynctimerchan \/ consumer = "recv")

\* a receive from t.C would not block
ChanReady == IF asynctimerchan THEN timerC > 0 ELSE TimerDue

\* t.Stop(): reports whether the call stopped the timer
TimerStopResult == reloadTimer.armed

TimerStopped == [reloadTimer EXCEPT !.armed = FALSE, !.when = 0]

\* t.Reset(d)
TimerReset(d) == [isNil |-> FALSE, armed |-> TRUE, when |-> d]

\* the state of the timer and its channel after a receive that did not block
TimerAfterRecv == IF asynctimerchan THEN reloadTimer ELSE TimerStopped

ChanAfterRecv == IF asynctimerchan THEN timerC - 1 ELSE timerC

----------------------------------------------------------------------------
\* nothing was done for a directory yet
NoDir == [root |-> <<>>, eventType |-> "", tree |-> {}, unreadable |-> {},
          failing |-> {}, adds |-> <<>>, calls |-> <<>>, folderErr |-> FALSE,
          logged |-> 0, addErr |-> FALSE]

\* the fields of DevWatch and the environment when watchEvents is called;
\* h.BrowserReload is a function that returns an error (reloadErrs) or nil
InitFields(modes, observers, reloadErrs) ==
    /\ asynctimerchan \in modes
    /\ streams = OpenStreams
    /\ FolderEvents \in observers
    /\ dirs = {DirSrc}
    /\ watched = {}
    /\ folderLog = 0
    /\ hDir = NoDir
    /\ fs = [p \in Files |-> 1]
    /\ events = <<>>
    /\ emitted = 0
    /\ exitChan = FALSE
    /\ exitSent = FALSE
    /\ pc = "start"
    /\ cur = NoEvent
    /\ now = 0
    /\ idx = 0
    /\ processedSuccessfully = FALSE
    /\ atLeastOneGoHandlerSucceeded = FALSE
    /\ lastEventInfo = [p \in Names |-> NoInfo]
    /\ reloadTimer = NilTimer
    /\ timerC = 0
    /\ reloadMutex = "free"
    /\ stopped = FALSE
    /\ consumer = "none"
    /\ reloadCount = 0
    /\ hProc = [p \in Names |-> [age |-> -1, changed |-> FALSE, since |-> FALSE,
                                 recvHash |-> zeroHash]]
    /\ hDec = NoDec
    /\ hLog = NoLog
    /\ \E reloadErr \in reloadErrs :
          hSched = [calls |-> 0, bursts |-> 0, discarded |-> 0, sinceCall |-> -1,
                    sinceReload |-> -1, fired |-> 0, taken |-> 0,
                    fireOK |-> TRUE, boundary |-> FALSE, spaced |-> TRUE,
                    owed |-> FALSE, carry |-> FALSE,
                    reloadErr |-> reloadErr, reloadLogged |-> 0]
    /\ hExit = [handled |-> FALSE, due |-> FALSE, dueReloads |-> 0, carried |-> FALSE,
                dropped |-> FALSE, stopCalled |-> FALSE, armed |-> FALSE,
                held |-> FALSE, idle |-> FALSE, late |-> 0, busy |-> FALSE,
                waiting |-> FALSE, returned |-> "no", logs |-> 0, owing |-> 0]

\* the same with a reload action that returns no error
InitLoop(modes, observers) == InitFields(modes, observers, {FALSE})

\* the state when watchEvents is called, with the timer channel in one of modes
\* and the folder observer one of observers
InitProgram(modes, observers) ==
    /\ containIn = NoContain
    /\ containOut = NoResult
    /\ InitLoop(modes, observers)

\* the state when watchEvents is called without a folder observer
InitWith(modes) == InitProgram(modes, {"nil"})

----------------------------------------------------------------------------
(* The environment *)

\* the notification source delivers a notification for path p behind the
\* ones that wait in the channel
Enqueue(p, op) ==
    /\ pc \notin {"stop_stop", "stop_drain", "stop_trigger", "stop_reloading", "done"}
    /\ streams.Events = "open"
    /\ emitted < MaxEvents
    /\ Len(events) < MaxBacklog
    /\ events' = Append(events, [Name |-> p, Op |-> op])
    /\ emitted' = emitted + 1
    /\ UNCHANGED <<asynctimerchan, streams, fs, exitChan, exitSent>>
    /\ UNCHANGED <<progVars, timerVars, consumer, reloadCount, histVars>>
    /\ UNCHANGED <<dirVars, containVars>>

\* the notification source delivers a notification for path p
Emit(p, op) ==
    /\ pc \notin {"stop_stop", "stop_drain", "stop_trigger", "stop_reloading", "done"}
    /\ streams.Events = "open"
    /\ emitted < MaxEvents
    /\ Len(events) < MaxQueue
    /\ events' = Append(events, [Name |-> p, Op |-> op])
    /\ emitted' = emitted + 1
    /\ UNCHANGED <<asynctimerchan, streams, fs, exitChan, exitSent>>
    /\ UNCHANGED <<progVars, timerVars, consumer, reloadCount, histVars>>
    /\ UNCHANGED <<dirVars, containVars>>

\* the notification source delivers a notification for directory d
EmitDir(d, op) ==
    /\ emitted < MaxDirEvents
    /\ Emit(d, op)

\* the notification source delivers one more of the notifications of a
\* stream that never runs dry
Flood(p, op) ==
    /\ pc \notin {"stop_stop", "stop_drain", "stop_trigger", "stop_reloading", "done"}
    /\ streams.Events = "open"
    /\ Len(events) < MaxQueue
    /\ events' = Append(events, [Name |-> p, Op |-> op])
    /\ UNCHANGED <<asynctimerchan, streams, fs, emitted, exitChan, exitSent>>
    /\ UNCHANGED <<progVars, timerVars, consumer, reloadCount, histVars>>
    /\ UNCHANGED <<dirVars, containVars>>

\* the bytes of p change, or p is removed or created: an edit by the user, or
\* a handler (a compiler, a formatter) rewriting the file during dispatch
Edit(p, c) ==
    /\ pc # "done"
    /\ c # fs[p]
    /\ fs' = [fs EXCEPT ![p] = c]
    /\ hProc' = [hProc EXCEPT ![p].changed = TRUE, ![p].since = TRUE]
    /\ UNCHANGED <<asynctimerchan, streams, events, emitted, exitChan, exitSent>>
    /\ UNCHANGED <<progVars, timerVars, consumer, reloadCount, hDec, hLog, hSched, hExit>>
    /\ UNCHANGED <<dirVars, containVars>>

\* os.Stat succeeds
Exists(path) == IF path \in Files THEN fs[path] # NoFile ELSE path \in dirs

\* a directory is created in a directory that exists
Mkdir(d) ==
    /\ pc # "done"
    /\ d \notin dirs
    /\ FilepathDir(d) \in dirs
    /\ dirs' = dirs \cup {d}
    /\ UNCHANGED <<envVars, progVars, timerVars, consumer, reloadCount, histVars,
                   FolderEvents, watched, folderLog, hDir, containVars>>

\* a directory is removed with everything below it
RemoveAll(d) ==
    /\ pc # "done"
    /\ d \in dirs
    /\ dirs' = {e \in dirs : ~Below(d, e)}
    /\ UNCHANGED <<envVars, progVars, timerVars, consumer, reloadCount, histVars,
                   FolderEvents, watched, folderLog, hDir, containVars>>

\* the exit signal is sent, once
SendExit ==
    /\ ~exitSent
    /\ pc # "start"
    /\ exitSent' = TRUE
    /\ exitChan' = TRUE
    /\ hExit' = [hExit EXCEPT !.busy = pc \in {"handle", "record"}]
    /\ UNCHANGED <<asynctimerchan, streams, fs, events, emitted>>
    /\ UNCHANGED <<progVars, timerVars, consumer, reloadCount, hProc, hDec, hLog, hSched>>
    /\ UNCHANGED <<dirVars, containVars>>

\* TickStep milliseconds pass.  The runtime sends a due firing before more
\* time passes whenever it can be sent.  scheduleReload takes no time: its
\* mutex is locked by the event loop only and none of its calls blocks.
Tick ==
    /\ pc \notin {"start", "sched_stop", "sched_drain", "sched_reset"}
    /\ ~FireEnabled
    /\ now' = IF pc \in {"handle", "record"} THEN Older(now) ELSE now
    /\ lastEventInfo' = [p \in Names |->
            IF lastEventInfo[p].exists
            THEN [lastEventInfo[p] EXCEPT !.lastTime = Older(@)]
            ELSE lastEventInfo[p]]
    /\ reloadTimer' = IF reloadTimer.armed
                      THEN [reloadTimer EXCEPT !.when = Max0(@ - TickStep)]
                      ELSE reloadTimer
    /\ hProc' = [p \in Names |->
            [hProc[p] EXCEPT !.age = IF @ >= 0 THEN Older(@) ELSE @]]
    /\ hSched' = [hSched EXCEPT
          !.sinceCall = IF @ >= 0 THEN Older(@) ELSE @,
          !.sinceReload = IF @ < 0 \/ @ >= wait THEN @ ELSE Older(@)]
    /\ hLog' = [hLog EXCEPT !.slowFor = <<>>]
    /\ UNCHANGED <<envVars, pc, cur, idx, processedSuccessfully,
                   atLeastOneGoHandlerSucceeded, timerC, reloadMutex, stopped,
                   consumer, reloadCount, hDec, hExit>>
    /\ UNCHANGED <<dirVars, containVars>>

----------------------------------------------------------------------------
(* watchEvents: the event loop *)

\* a timer that is created and not stopped
StartNoStop ==
    /\ pc = "start"
    /\ reloadMutex = "free"
    /\ reloadTimer' = IF reloadTimer.isNil
                      THEN [isNil |-> FALSE, armed |-> TRUE, when |-> 0]
                      ELSE reloadTimer
    /\ consumer' = IF reloadTimer.isNil THEN "recv" ELSE consumer
    /\ pc' = "select"
    /\ UNCHANGED <<envVars, cur, now, idx, processedSuccessfully,
                   atLeastOneGoHandlerSucceeded, lastEventInfo, timerC, reloadMutex,
                   stopped, reloadCount, histVars>>
    /\ UNCHANGED <<dirVars, containVars>>

\* lines 26-38: the stopped timer and the goroutine that waits for it.  With
\* a buffered channel the timer of NewTimer(0) may fire before Stop() stops
\* it, and its firing stays in the buffer.
Start ==
    /\ pc = "start"
    /\ reloadMutex = "free"
    /\ reloadTimer' = IF reloadTimer.isNil
                      THEN [isNil |-> FALSE, armed |-> FALSE, when |-> 0]
                      ELSE reloadTimer
    /\ consumer' = IF reloadTimer.isNil THEN "recv" ELSE consumer
    /\ timerC' \in IF reloadTimer.isNil /\ asynctimerchan THEN {0, 1} ELSE {timerC}
    /\ hSched' = [hSched EXCEPT !.fired = @ + (timerC' - timerC)]
    /\ pc' = "select"
    /\ UNCHANGED <<envVars, cur, now, idx, processedSuccessfully,
                   atLeastOneGoHandlerSucceeded, lastEventInfo, reloadMutex,
                   stopped, reloadCount, hProc, hDec, hLog, hExit>>
    /\ UNCHANGED <<dirVars, containVars>>

\* a filter that looks at the existence of the path only
DiscardsMissingOnly(isDeleteEvent, statErr, name) ==
    \/ (~isDeleteEvent /\ statErr)
    \/ GetFileNameErr(name)

\* lines 55-67: the events the loop drops before any processing
Discards(isDeleteEvent, statErr, name) ==
    \/ (~isDeleteEvent /\ (statErr \/ Contain(name)))
    \/ GetFileNameErr(name)

\* a loop that has no branch for directories
IsDirectoryEventNever(isDeleteEvent, isDir) == FALSE

\* line 70: the event goes to handleDirectoryEvent
IsDirectoryEvent(isDeleteEvent, isDir) == ~isDeleteEvent /\ isDir

\* a skip that restarts the window of the path
AfterDecisionRefreshes(kind, name) ==
    IF kind = "skip"
    THEN [lastEventInfo EXCEPT ![name].lastTime = TimeNow]
    ELSE lastEventInfo

\* lines 55-100: lastEventInfo after the decision; no branch writes it (the
\* only write is the one of lines 112-115, after dispatch)
AfterDecision(kind, name) == lastEventInfo

\* a receive that takes the newest notification of the channel
ReceiveNewest(q) == q[Len(q)]

\* line 43: event := <-h.watcher.Events takes the oldest notification
Receive(q) == Head(q)

\* lines 43-100: receive one notification; discard it, hand it to
\* handleDirectoryEvent, skip it as a duplicate, or enter handleFileEvent
RecvEvent ==
    /\ pc = "select"
    /\ events # <<>>
    /\ LET event == Receive(events)
           eventType == ToLower(OpString(event.Op))
           isDeleteEvent == eventType = "remove" \/ eventType = "delete"
           statErr == ~Exists(event.Name)
           discard == Discards(isDeleteEvent, statErr, event.Name)
           isDir == event.Name \in dirs
           shouldProcess == ShouldProcess(event.Name)
           kind == IF discard THEN "discard"
                   ELSE IF IsDirectoryEvent(isDeleteEvent, isDir) THEN "directory"
                   ELSE IF shouldProcess THEN "process" ELSE "skip"
       IN  /\ events' = Tail(events)
           /\ hDec' = [kind |-> kind,
                       Name |-> event.Name,
                       prev |-> Relation(hProc[event.Name].age),
                       same |-> ~hProc[event.Name].changed,
                       sameSinceRecord |-> ~hProc[event.Name].since,
                       unreadable |-> calculateFileHash(event.Name) = zeroHash,
                       rec |-> IF lastEventInfo[event.Name].exists
                               THEN Relation(lastEventInfo[event.Name].lastTime)
                               ELSE "none",
                       hashDiffers |-> calculateFileHash(event.Name)
                                         # lastEventInfo[event.Name].lastHash,
                       delete |-> isDeleteEvent]
           /\ lastEventInfo' = AfterDecision(kind, event.Name)
           /\ IF kind = "process"
              THEN /\ pc' = "handle"
                   /\ cur' = [Name |-> event.Name, eventType |-> eventType,
                              isDeleteEvent |-> isDeleteEvent]
                   /\ now' = TimeNow
                   /\ idx' = 1
                   /\ hProc' = [hProc EXCEPT ![event.Name] =
                                   [age |-> 0, changed |-> FALSE, since |-> FALSE,
                                    recvHash |-> calculateFileHash(event.Name)]]
                   /\ hLog' = NoLog
              ELSE IF kind = "directory"
              THEN /\ pc' = "dir"
                   /\ cur' = [Name |-> event.Name, eventType |-> eventType,
                              isDeleteEvent |-> isDeleteEvent]
                   /\ UNCHANGED <<now, idx, hProc, hLog>>
              ELSE /\ UNCHANGED <<pc, cur, now, idx, hProc, hLog>>
    /\ hDir' = NoDir
    /\ UNCHANGED <<asynctimerchan, streams, fs, emitted, exitChan, exitSent,
                   processedSuccessfully, atLeastOneGoHandlerSucceeded,
                   timerVars, consumer, reloadCount, hSched, hExit>>
    /\ UNCHANGED <<dirs, FolderEvents, watched, folderLog, containVars>>

(* handleFileEvent, lines 166-211 *)

\* a loop that stops at the first handler that succeeded
SupportsUntilSuccess(handler, extension) ==
    SlicesContains(handler.SupportedExtensions, extension) /\ ~processedSuccessfully

\* line 174
Supports(handler, extension) == SlicesContains(handler.SupportedExtensions, extension)

\* an oracle that is consulted for every event on a .go file
AsksOracleOnDelete(isDeleteEvent, extension) == extension = ExtGo

\* line 182: the ownership oracle is consulted
AsksOracle(isDeleteEvent, extension) == ~isDeleteEvent /\ extension = ExtGo

\* what depFinder.ThisFileIsMine may answer: (isMine, herr)
OracleAnswers == {"mine", "notmine", "error"}

\* an error of the oracle that is ignored, isMine keeping its zero value or not
InvokesDespiteError(answer) == answer \in {"notasked", "mine", "error"}

\* lines 184-190: the handler is invoked
Invokes(answer) == answer \in {"notasked", "mine"}

\* an error of the oracle that ends the loop over the handlers
AfterHandlerReturnsOnError(i, answer) ==
    IF answer = "error" THEN NumHandlers + 1 ELSE i + 1

\* lines 173, 175, 187: continue, or the end of the loop body: the handler
\* after handler i comes next, whatever the oracle answered for handler i
AfterHandler(i, answer) == i + 1

\* one iteration of the loop of line 173, for handler idx; the oracle answers
\* one of answers and a handler that is invoked fails (err) as errs allows
HandlerStep(answers, errs) ==
    /\ pc = "handle"
    /\ idx <= NumHandlers
    /\ LET handler == FilesEventHandlers[idx]
           extension == FilepathExt(cur.Name)
           isGoFileEvent == extension = ExtGo
       IN  IF ~Supports(handler, extension)
           THEN UNCHANGED <<processedSuccessfully, atLeastOneGoHandlerSucceeded, hLog>>
           ELSE \E answer \in (IF AsksOracle(cur.isDeleteEvent, extension)
                               THEN answers ELSE {"notasked"}) :
                \E err \in (IF Invokes(answer) THEN errs ELSE {TRUE}) :
                    /\ processedSuccessfully' =
                           (processedSuccessfully \/ (Invokes(answer) /\ ~err))
                    /\ atLeastOneGoHandlerSucceeded' =
                           (atLeastOneGoHandlerSucceeded
                              \/ (Invokes(answer) /\ ~err /\ isGoFileEvent))
                    /\ hLog' = [hLog EXCEPT
                          !.oracle[idx] = answer,
                          !.invoked = IF Invokes(answer) THEN Append(@, idx) ELSE @,
                          !.result[idx] = IF ~Invokes(answer) THEN "none"
                                          ELSE IF err THEN "err" ELSE "ok"]
    /\ idx' = AfterHandler(idx, hLog'.oracle[idx])
    /\ UNCHANGED <<envVars, pc, cur, now, lastEventInfo, timerVars, consumer,
                   reloadCount, hProc, hDec, hSched, hExit>>
    /\ UNCHANGED <<dirVars, containVars>>

\* a call of scheduleReload opens a new burst when the previous call is not
\* within the delay before it
NewBurst == hSched.sinceCall < 0 \/ hSched.sinceCall >= wait

\* nothing of an earlier call is left: the timer is idle, its channel is
\* empty and the consumer holds no firing
NothingPending == ~reloadTimer.armed /\ timerC = 0 /\ consumer # "trigger"

\* a reload for Go files only
ReloadWarrantedGoOnly(isGoFileEvent) == isGoFileEvent /\ atLeastOneGoHandlerSucceeded

\* line 208
ReloadWarranted(isGoFileEvent) ==
    \/ (isGoFileEvent /\ atLeastOneGoHandlerSucceeded)
    \/ (~isGoFileEvent /\ processedSuccessfully)

\* lines 205-210: after the last handler, call scheduleReload or return
FinishHandle ==
    /\ pc = "handle"
    /\ idx > NumHandlers
    /\ IF ReloadWarranted(FilepathExt(cur.Name) = ExtGo)
       THEN /\ pc' = "sched_stop"
            /\ hLog' = [hLog EXCEPT !.scheduled = @ + 1]
            /\ hSched' = [hSched EXCEPT
                  !.calls = @ + 1,
                  !.bursts = IF NewBurst THEN @ + 1 ELSE @,
                  !.sinceCall = 0,
                  !.boundary = @ \/ hSched.sinceCall = wait,
                  !.spaced = @ /\ (hSched.sinceCall < 0
                                     \/ (hSched.sinceCall > wait /\ NothingPending)),
                  !.owed = TRUE,
                  !.carry = FALSE]
       ELSE /\ pc' = "record"
            /\ UNCHANGED <<hLog, hSched>>
    /\ UNCHANGED <<envVars, cur, now, idx, processedSuccessfully,
                   atLeastOneGoHandlerSucceeded, lastEventInfo, timerVars, consumer,
                   reloadCount, hProc, hDec, hExit>>
    /\ UNCHANGED <<dirVars, containVars>>

\* lines 107-115: the record of the event, written after dispatch
Record ==
    /\ pc = "record"
    /\ lastEventInfo' = [lastEventInfo EXCEPT ![cur.Name] = NewRecord(cur.Name)]
    /\ pc' = "select"
    /\ cur' = NoEvent
    /\ now' = 0
    /\ idx' = 0
    /\ processedSuccessfully' = FALSE
    /\ atLeastOneGoHandlerSucceeded' = FALSE
    /\ hProc' = [hProc EXCEPT ![cur.Name].since = FALSE,
                              ![cur.Name].recvHash = zeroHash]
    /\ hLog' = [hLog EXCEPT
          !.slowFor = IF now > debounceWindow THEN cur.Name ELSE <<>>]
    /\ UNCHANGED <<envVars, timerVars, consumer, reloadCount, hDec, hSched, hExit>>
    /\ UNCHANGED <<dirVars, containVars>>

----------------------------------------------------------------------------
(* handleDirectoryEvent, lines 132-163 *)

\* h.addDirectoryToWatcher(path, reg): a path that is in reg is left alone;
\* otherwise it is added to the watcher and to reg, or the watcher refuses it
addDirectoryToWatcher(path, reg, failing) ==
    IF path \in reg THEN [err |-> FALSE, reg |-> reg, added |-> <<>>]
    ELSE IF path \notin dirs \/ path \in failing
         THEN [err |-> TRUE, reg |-> reg, added |-> <<>>]
         ELSE [err |-> FALSE, reg |-> reg \cup {path}, added |-> <<path>>]

\* a traversal that does not descend below the entries of root
WalkEntriesOnly(root, unreadable) ==
    SelectSeq(WalkOrder, LAMBDA path :
        /\ Exists(path)
        /\ Below(root, path)
        /\ Len(path) <= Len(root) + 1
        /\ (path = root \/ root \in dirs \ unreadable))

\* filepath.Walk(root, walkFn): the paths walkFn is called with and no error,
\* in lexical order; the entries of a directory that cannot be read are not
\* visited
Walk(root, unreadable) ==
    SelectSeq(WalkOrder, LAMBDA path :
        /\ Exists(path)
        /\ Below(root, path)
        /\ \A k \in Len(root)..(Len(path) - 1) :
               SubSeq(path, 1, k) \in dirs \ unreadable)

\* lines 149-157: walkFn, called for each of visits in turn
RECURSIVE WalkFn(_, _, _, _)
WalkFn(visits, eventName, st, failing) ==
    IF visits = <<>> THEN st
    ELSE LET path == Head(visits)
             r == addDirectoryToWatcher(path, st.reg, failing)
         IN  IF path \in dirs /\ path # eventName /\ ~Contain(path)
             THEN WalkFn(Tail(visits), eventName,
                         [reg |-> r.reg, adds |-> st.adds \o r.added], failing)
             ELSE WalkFn(Tail(visits), eventName, st, failing)

\* the elements of a sequence
Range(seq) == {seq[i] : i \in DOMAIN seq}

\* the sets of directories that one walk below root can fail on: none or one
OneOrNone(root) == {{}} \cup {{d} : d \in {e \in dirs : Below(root, e)}}

\* the whole of handleDirectoryEvent for the event in cur: the folder
\* observer, which may return an error, then for a create the registration of
\* the directory and of the directories below it
handleDirectoryEvent ==
    /\ pc = "dir"
    /\ \E folderErr \in (IF FolderEvents # "nil" THEN BOOLEAN ELSE {FALSE}),
          failing \in OneOrNone(cur.Name), unreadable \in OneOrNone(cur.Name) :
          LET fileName == GetFileName(cur.Name)
              eventName == cur.Name
              first == addDirectoryToWatcher(eventName, {}, failing)
              done == IF cur.eventType # "create"
                      THEN [reg |-> {}, adds |-> <<>>]
                      ELSE IF first.err
                      THEN [reg |-> first.reg, adds |-> first.added]
                      ELSE WalkFn(Walk(eventName, unreadable), eventName,
                                  [reg |-> first.reg, adds |-> first.added], failing)
          IN  /\ folderLog' = IF FolderEvents # "nil" THEN folderLog + 1 ELSE folderLog
              /\ watched' = watched \cup Range(done.adds)
              /\ hDir' = [root |-> eventName, eventType |-> cur.eventType,
                          tree |-> dirs, unreadable |-> unreadable,
                          failing |-> failing, adds |-> done.adds,
                          calls |-> IF FolderEvents # "nil"
                                    THEN << [folderName |-> fileName,
                                             path |-> eventName,
                                             event |-> cur.eventType] >>
                                    ELSE <<>>,
                          folderErr |-> folderErr,
                          logged |-> IF folderErr THEN 1 ELSE 0,
                          addErr |-> cur.eventType = "create" /\ first.err]
    /\ pc' = "select"
    /\ cur' = NoEvent
    /\ UNCHANGED <<envVars, now, idx, processedSuccessfully,
                   atLeastOneGoHandlerSucceeded, lastEventInfo, timerVars, consumer,
                   reloadCount, histVars, dirs, FolderEvents, containVars>>

----------------------------------------------------------------------------
(* scheduleReload, lines 226-245 *)

\* a leading-edge debounce: a timer that is counting down is left alone
SchedStopLeading ==
    /\ pc = "sched_stop"
    /\ reloadMutex = "free"
    /\ IF reloadTimer.isNil
       THEN /\ reloadTimer' = TimerReset(wait)
            /\ pc' = "record"
            /\ UNCHANGED <<reloadMutex, stopped>>
       ELSE IF reloadTimer.armed
       THEN /\ pc' = "record"
            /\ UNCHANGED <<reloadTimer, reloadMutex, stopped>>
       ELSE /\ reloadMutex' = "loop"
            /\ stopped' = FALSE
            /\ reloadTimer' = TimerStopped
            /\ pc' = "sched_drain"
    /\ UNCHANGED <<envVars, cur, now, idx, processedSuccessfully,
                   atLeastOneGoHandlerSucceeded, lastEventInfo, timerC, consumer,
                   reloadCount, histVars>>
    /\ UNCHANGED <<dirVars, containVars>>

\* lines 229-238: lock, and stop the timer
SchedStop ==
    /\ pc = "sched_stop"
    /\ reloadMutex = "free"
    /\ IF reloadTimer.isNil
       THEN /\ reloadTimer' = TimerReset(wait)
            /\ pc' = "record"
            /\ UNCHANGED <<reloadMutex, stopped, hSched>>
       ELSE /\ reloadMutex' = "loop"
            /\ stopped' = TimerStopResult
            /\ reloadTimer' = TimerStopped
            /\ pc' = IF TimerStopResult THEN "sched_reset" ELSE "sched_drain"
            /\ hSched' = [hSched EXCEPT !.discarded = IF TimerDue THEN @ + 1 ELSE @]
    /\ UNCHANGED <<envVars, cur, now, idx, processedSuccessfully,
                   atLeastOneGoHandlerSucceeded, lastEventInfo, timerC, consumer,
                   reloadCount, hProc, hDec, hLog, hExit>>
    /\ UNCHANGED <<dirVars, containVars>>

\* a Reset that is made only when Stop() stopped the timer
SchedDrainNoReset ==
    /\ pc = "sched_drain"
    /\ reloadMutex' = "free"
    /\ pc' = "record"
    /\ UNCHANGED <<envVars, cur, now, idx, processedSuccessfully,
                   atLeastOneGoHandlerSucceeded, lastEventInfo, reloadTimer, timerC,
                   stopped, consumer, reloadCount, histVars>>
    /\ UNCHANGED <<dirVars, containVars>>

\* lines 239-242: Stop() returned false; take a firing left in the channel
SchedDrain ==
    /\ pc = "sched_drain"
    /\ IF ChanReady
       THEN /\ reloadTimer' = TimerAfterRecv
            /\ timerC' = ChanAfterRecv
            /\ hSched' = [hSched EXCEPT !.discarded = @ + 1, !.taken = @ + 1]
       ELSE UNCHANGED <<reloadTimer, timerC, hSched>>
    /\ pc' = "sched_reset"
    /\ UNCHANGED <<envVars, cur, now, idx, processedSuccessfully,
                   atLeastOneGoHandlerSucceeded, lastEventInfo, reloadMutex, stopped,
                   consumer, reloadCount, hProc, hDec, hLog, hExit>>
    /\ UNCHANGED <<dirVars, containVars>>

\* lines 244-245: arm the timer again and unlock
SchedReset ==
    /\ pc = "sched_reset"
    /\ reloadTimer' = TimerReset(wait)
    /\ reloadMutex' = "free"
    /\ pc' = "record"
    /\ UNCHANGED <<envVars, cur, now, idx, processedSuccessfully,
                   atLeastOneGoHandlerSucceeded, lastEventInfo, timerC, stopped,
                   consumer, reloadCount, histVars>>
    /\ UNCHANGED <<dirVars, containVars>>

----------------------------------------------------------------------------
(* The timer's firing and the consumer goroutine, lines 31-36 and 214-221 *)

\* the deadline has passed: the runtime sends the firing, to the consumer
\* blocked in <-t.C or into the buffer of the channel
Fire ==
    /\ FireEnabled
    /\ reloadTimer' = TimerStopped
    /\ IF asynctimerchan
       THEN /\ consumer' = consumer
            /\ timerC' = 1
            /\ hExit' = hExit
       ELSE /\ consumer' = "trigger"
            /\ timerC' = timerC
            /\ hExit' = [hExit EXCEPT !.carried = hExit.handled /\ hExit.due]
    /\ hSched' = [hSched EXCEPT
          !.fireOK = @ /\ (hSched.sinceCall >= wait \/ pc = "sched_stop"),
          !.carry = pc # "sched_stop",
          !.fired = @ + 1,
          !.taken = IF asynctimerchan THEN @ ELSE @ + 1]
    /\ UNCHANGED <<envVars, progVars, reloadMutex, stopped, reloadCount,
                   hProc, hDec, hLog>>
    /\ UNCHANGED <<dirVars, containVars>>

\* a receive that leaves the firing in the buffer
ConsumerRecvKeepsFiring ==
    /\ consumer = "recv"
    /\ timerC > 0
    /\ timerC' = timerC
    /\ consumer' = "trigger"
    /\ hExit' = [hExit EXCEPT !.carried = hExit.handled /\ hExit.due]
    /\ hSched' = [hSched EXCEPT !.taken = @ + 1]
    /\ UNCHANGED <<envVars, progVars, reloadTimer, reloadMutex, stopped, reloadCount,
                   hProc, hDec, hLog>>
    /\ UNCHANGED <<dirVars, containVars>>

\* line 33: the consumer takes a firing that waits in the buffer
ConsumerRecv ==
    /\ consumer = "recv"
    /\ timerC > 0
    /\ timerC' = timerC - 1
    /\ consumer' = "trigger"
    /\ hExit' = [hExit EXCEPT !.carried = hExit.handled /\ hExit.due]
    /\ hSched' = [hSched EXCEPT !.taken = @ + 1]
    /\ UNCHANGED <<envVars, progVars, reloadTimer, reloadMutex, stopped, reloadCount,
                   hProc, hDec, hLog>>
    /\ UNCHANGED <<dirVars, containVars>>

\* lines 34, 214-219: the consumer calls h.BrowserReload
ConsumerTrigger ==
    /\ consumer = "trigger"
    /\ consumer' = "reloading"
    /\ reloadCount' = reloadCount + 1
    /\ hSched' = [hSched EXCEPT !.owed = IF hSched.carry THEN FALSE ELSE @,
                                !.carry = FALSE,
                                !.sinceReload = 0]
    /\ hExit' = [hExit EXCEPT !.dueReloads = IF hExit.carried THEN @ + 1 ELSE @,
                              !.carried = FALSE,
                              !.late = IF hExit.stopCalled THEN @ + 1 ELSE @]
    /\ UNCHANGED <<envVars, progVars, timerVars, hProc, hDec, hLog>>
    /\ UNCHANGED <<dirVars, containVars>>

\* a goroutine that handles one firing and returns
ConsumerReturnsOnce ==
    /\ consumer = "reloading"
    /\ consumer' = "none"
    /\ UNCHANGED <<envVars, progVars, timerVars, reloadCount, histVars>>
    /\ UNCHANGED <<dirVars, containVars>>

\* h.BrowserReload returns; the consumer waits for the next firing
ConsumerReturn ==
    /\ consumer = "reloading"
    /\ consumer' = "recv"
    /\ UNCHANGED <<envVars, progVars, timerVars, reloadCount, histVars>>
    /\ UNCHANGED <<dirVars, containVars>>

----------------------------------------------------------------------------
(* The exit signal and stopReload, lines 123-126 and 248-269 *)

\* a select that takes the exit signal only when no event is waiting
RecvExitWhenIdle ==
    /\ events = <<>>
    /\ pc = "select"
    /\ exitChan
    /\ exitChan' = FALSE
    /\ events' = <<>>
    /\ streams' = ClosedStreams
    /\ pc' = "stop_stop"
    /\ hExit' = [hExit EXCEPT !.handled = TRUE, !.due = ChanReady,
                              !.waiting = events # <<>>]
    /\ UNCHANGED <<asynctimerchan, fs, emitted, exitSent, cur, now, idx,
                   processedSuccessfully, atLeastOneGoHandlerSucceeded, lastEventInfo,
                   timerVars, consumer, reloadCount, hProc, hDec, hLog, hSched>>
    /\ UNCHANGED <<dirVars, containVars>>

\* lines 123-124: the exit signal is received and the watcher closed
RecvExit ==
    /\ pc = "select"
    /\ exitChan
    /\ exitChan' = FALSE
    /\ events' = <<>>
    /\ streams' = ClosedStreams
    /\ pc' = "stop_stop"
    /\ hExit' = [hExit EXCEPT !.handled = TRUE, !.due = ChanReady,
                              !.waiting = events # <<>>]
    /\ UNCHANGED <<asynctimerchan, fs, emitted, exitSent, cur, now, idx,
                   processedSuccessfully, atLeastOneGoHandlerSucceeded, lastEventInfo,
                   timerVars, consumer, reloadCount, hProc, hDec, hLog, hSched>>
    /\ UNCHANGED <<dirVars, containVars>>

\* a shutdown that leaves the timer running
StopStopNoStop ==
    /\ pc = "stop_stop"
    /\ reloadMutex = "free"
    /\ pc' = "done"
    /\ hExit' = [hExit EXCEPT !.stopCalled = TRUE,
                              !.armed = reloadTimer.armed /\ reloadTimer.when > 0,
                              !.held = consumer = "trigger",
                              !.idle = NothingPending]
    /\ UNCHANGED <<envVars, cur, now, idx, processedSuccessfully,
                   atLeastOneGoHandlerSucceeded, lastEventInfo, timerVars, consumer,
                   reloadCount, hProc, hDec, hLog, hSched>>
    /\ UNCHANGED <<dirVars, containVars>>

\* lines 249-254: lock, and stop the timer
StopStop ==
    /\ pc = "stop_stop"
    /\ reloadMutex = "free"
    /\ IF reloadTimer.isNil
       THEN /\ pc' = "done"
            /\ UNCHANGED <<reloadTimer, reloadMutex, stopped, hExit>>
       ELSE /\ stopped' = TimerStopResult
            /\ reloadTimer' = TimerStopped
            /\ reloadMutex' = IF TimerStopResult THEN "free" ELSE "loop"
            /\ pc' = IF TimerStopResult THEN "done" ELSE "stop_drain"
            /\ hExit' = [hExit EXCEPT !.dropped = TimerStopResult,
                                      !.stopCalled = TRUE,
                                      !.armed = reloadTimer.armed /\ reloadTimer.when > 0,
                                      !.held = consumer = "trigger",
                                      !.idle = NothingPending]
    /\ UNCHANGED <<envVars, cur, now, idx, processedSuccessfully,
                   atLeastOneGoHandlerSucceeded, lastEventInfo, timerC, consumer,
                   reloadCount, hProc, hDec, hLog, hSched>>
    /\ UNCHANGED <<dirVars, containVars>>

\* a drain that calls the reload without unlocking first
StopDrainKeepsLock ==
    /\ pc = "stop_drain"
    /\ IF ChanReady
       THEN /\ reloadTimer' = TimerAfterRecv
            /\ timerC' = ChanAfterRecv
            /\ pc' = "stop_trigger"
            /\ reloadMutex' = "loop"
            /\ hSched' = [hSched EXCEPT !.taken = @ + 1]
       ELSE /\ UNCHANGED <<reloadTimer, timerC, hSched>>
            /\ pc' = "done"
            /\ reloadMutex' = "free"
    /\ UNCHANGED <<envVars, cur, now, idx, processedSuccessfully,
                   atLeastOneGoHandlerSucceeded, lastEventInfo, stopped, consumer,
                   reloadCount, hProc, hDec, hLog, hExit>>
    /\ UNCHANGED <<dirVars, containVars>>

\* lines 256-264: Stop() returned false; take a firing left in the channel
\* and unlock to call the reload, or return
StopDrain ==
    /\ pc = "stop_drain"
    /\ IF ChanReady
       THEN /\ reloadTimer' = TimerAfterRecv
            /\ timerC' = ChanAfterRecv
            /\ pc' = "stop_trigger"
            /\ hSched' = [hSched EXCEPT !.taken = @ + 1]
       ELSE /\ UNCHANGED <<reloadTimer, timerC, hSched>>
            /\ pc' = "done"
    /\ reloadMutex' = "free"
    /\ UNCHANGED <<envVars, cur, now, idx, processedSuccessfully,
                   atLeastOneGoHandlerSucceeded, lastEventInfo, stopped, consumer,
                   reloadCount, hProc, hDec, hLog, hExit>>
    /\ UNCHANGED <<dirVars, containVars>>

\* line 260: the loop calls h.BrowserReload itself
StopTrigger ==
    /\ pc = "stop_trigger"
    /\ pc' = "stop_reloading"
    /\ reloadCount' = reloadCount + 1
    /\ hExit' = [hExit EXCEPT !.dueReloads = @ + 1]
    /\ hSched' = [hSched EXCEPT !.sinceReload = 0]
    /\ UNCHANGED <<envVars, cur, now, idx, processedSuccessfully,
                   atLeastOneGoHandlerSucceeded, lastEventInfo, timerVars, consumer,
                   hProc, hDec, hLog>>
    /\ UNCHANGED <<dirVars, containVars>>

\* lines 261, 250: h.BrowserReload returned; lock again, unlock on return
StopReturn ==
    /\ pc = "stop_reloading"
    /\ reloadMutex = "free"
    /\ pc' = "done"
    /\ UNCHANGED <<envVars, cur, now, idx, processedSuccessfully,
                   atLeastOneGoHandlerSucceeded, lastEventInfo, timerVars, consumer,
                   reloadCount, histVars>>
    /\ UNCHANGED <<dirVars, containVars>>

----------------------------------------------------------------------------
(* Specifications.  Each one runs the whole program; they differ in what *)
(* the environment does. *)

ExitPcs == {"stop_stop", "stop_drain", "stop_trigger", "stop_reloading", "done"}

\* the steps of the event loop up to the call of scheduleReload
----------------------------------------------------------------------------
(* The streams of the watcher, lines 43-47 and 117-121 *)

\* somebody other than the loop closes a stream of the watcher
CloseStream(s) ==
    /\ pc \notin ExitPcs \cup {"returned"}
    /\ streams[s] = "open"
    /\ streams' = [streams EXCEPT ![s] = "closed"]
    /\ UNCHANGED <<asynctimerchan, fs, events, emitted, exitChan, exitSent>>
    /\ UNCHANGED <<progVars, timerVars, consumer, reloadCount, histVars>>
    /\ UNCHANGED <<dirVars, containVars>>

\* the watcher reports an error
SendError ==
    /\ pc \notin ExitPcs \cup {"returned"}
    /\ streams.Errors = "open"
    /\ streams.errors < MaxQueue
    /\ streams' = [streams EXCEPT !.errors = @ + 1]
    /\ UNCHANGED <<asynctimerchan, fs, events, emitted, exitChan, exitSent>>
    /\ UNCHANGED <<progVars, timerVars, consumer, reloadCount, histVars>>
    /\ UNCHANGED <<dirVars, containVars>>

\* lines 117-121 with ok true: the error value is received and dropped
RecvError ==
    /\ pc = "select"
    /\ streams.errors > 0
    /\ streams' = [streams EXCEPT !.errors = @ - 1]
    /\ UNCHANGED <<asynctimerchan, fs, events, emitted, exitChan, exitSent>>
    /\ UNCHANGED <<progVars, timerVars, consumer, reloadCount, histVars>>
    /\ UNCHANGED <<dirVars, containVars>>

\* a return that stops the reload timer on its way out
AfterClosureStops == TimerStopped

\* the reload timer after the return of lines 45-46 and 119-120: nothing
\* touches it
AfterClosure == reloadTimer

\* the loop returns because stream s was found closed: it logs and returns
RecvClosed(s) ==
    /\ pc = "select"
    /\ pc' = "returned"
    /\ reloadTimer' = AfterClosure
    /\ hExit' = [hExit EXCEPT !.returned = s, !.logs = @ + 1,
                              !.armed = reloadTimer.armed,
                              !.owing = reloadCount + Pending]
    /\ UNCHANGED <<envVars, cur, now, idx, processedSuccessfully,
                   atLeastOneGoHandlerSucceeded, lastEventInfo, timerC,
                   reloadMutex, stopped, consumer, reloadCount, hProc, hDec,
                   hLog, hSched>>
    /\ UNCHANGED <<dirVars, containVars>>

\* lines 43-47 with ok false: nothing is left in the closed event stream
RecvClosedEvents ==
    /\ streams.Events = "closed"
    /\ events = <<>>
    /\ RecvClosed("Events")

\* lines 117-121 with ok false: nothing is left in the closed error stream
RecvClosedErrors ==
    /\ streams.Errors = "closed"
    /\ streams.errors = 0
    /\ RecvClosed("Errors")

StreamSteps ==
    \/ \E s \in {"Events", "Errors"} : CloseStream(s)
    \/ SendError
    \/ RecvError
    \/ RecvClosedEvents
    \/ RecvClosedErrors

LoopSteps(answers, errs) ==
    \/ Start
    \/ RecvEvent
    \/ HandlerStep(answers, errs)
    \/ FinishHandle
    \/ Record

\* scheduleReload, the timer and the consumer goroutine
ReloadSteps ==
    \/ SchedStop
    \/ SchedDrain
    \/ SchedReset
    \/ Fire
    \/ ConsumerTrigger
    \/ ConsumerReturn

\* the exit signal and stopReload
ExitSteps ==
    \/ SendExit
    \/ RecvExit
    \/ StopStop
    \/ StopDrain

\* the steps that exist only when the timer channel is buffered
BufferedSteps ==
    \/ ConsumerRecv
    \/ StopTrigger
    \/ StopReturn

(* SpecDebounce: notifications for one file whose bytes change at any time *)
(* (it is edited, removed, created again); every handler reports a failure, *)
(* so that no reload is scheduled; no exit signal. *)

InitDebounce == InitWith({FALSE})

NextDebounce ==
    \/ \E op \in Ops : Emit(PathGo, op)
    \/ \E c \in {NoFile} \cup Contents : Edit(PathGo, c)
    \/ Tick
    \/ LoopSteps(OracleAnswers, {TRUE})

SpecDebounce == InitDebounce /\ [][NextDebounce]_vars

(* SpecDirs: directories are created and removed below src and the source   *)
(* reports them, with or without a folder observer.                         *)

InitDirs == InitProgram({FALSE}, {"nil", "set"})

NextDirs ==
    \/ \E d \in Dirs \ {DirSrc} : Mkdir(d)
    \/ \E d \in Dirs \ {DirSrc} : RemoveAll(d)
    \/ \E d \in ReportedDirs, op \in DirOps : EmitDir(d, op)
    \/ LoopSteps({"mine"}, {FALSE})
    \/ handleDirectoryEvent

SpecDirs == InitDirs /\ [][NextDirs]_vars

(* SpecDiscard: a Go file is written and its handlers succeed, so that      *)
(* records are written and the reload timer runs, while the source reports  *)
(* a package directory and an excluded directory that exist or not.         *)

InitDiscard == InitProgram({FALSE}, {"set"})

NextDiscard ==
    \/ \E d \in {DirPkg, DirGit} : Mkdir(d)
    \/ RemoveAll(DirPkg)
    \/ \E d \in {DirPkg, DirGit} : Emit(d, "Create")
    \/ Emit(PathGo, "Write")
    \/ Tick
    \/ LoopSteps({"mine"}, {FALSE})
    \/ handleDirectoryEvent
    \/ ReloadSteps

SpecDiscard == InitDiscard /\ [][NextDiscard]_vars

(* SpecContain: one call of Contain, on a row of the table of TestContain   *)
(* or on a generated path. *)

\* the call of Contain
CallContain ==
    /\ ~containOut.called
    /\ containOut' = [called |-> TRUE,
                      result |-> ContainPath(containIn.path, containIn.unobserved)]
    /\ UNCHANGED <<containIn, envVars, progVars, timerVars, consumer, reloadCount,
                   histVars, dirVars>>

\* the calls that are tried: the rows of the table, and every path of up to
\* MaxSegments segments joined with either separator
InitContain ==
    /\ \/ \E r \in DOMAIN TestContain : containIn = TableInput(r)
       \/ \E n \in 1..MaxSegments :
             \E segs \in [1..n -> Segments], seps \in [1..(n - 1) -> Separators],
                u \in Unobserved :
                 containIn = GeneratedInput(segs, seps, u)
    /\ containOut = NoResult
    /\ InitLoop({FALSE}, {"nil"})

NextContain == CallContain

SpecContain == InitContain /\ [][NextContain]_vars

(* SpecDispatch: notifications for a Go file and a stylesheet, every answer *)
(* of the ownership oracle and every result of the handlers. *)

InitDispatch == InitWith({FALSE})

NextDispatch ==
    \/ \E p \in Paths, op \in Ops : Emit(p, op)
    \/ Tick
    \/ LoopSteps(OracleAnswers, BOOLEAN)
    \/ ReloadSteps

SpecDispatch == InitDispatch /\ [][NextDispatch]_vars

(* SpecReload: notifications for two files, handlers that own every file *)
(* and succeed, and the exit signal. *)

InitReload == InitWith({FALSE})

NextReload ==
    \/ \E p \in Paths : Emit(p, "Write")
    \/ Tick
    \/ LoopSteps({"mine"}, {FALSE})
    \/ ReloadSteps
    \/ ExitSteps

SpecReload == InitReload /\ [][NextReload]_vars

(* SpecBuffered: the same with the buffered timer channel of Go before *)
(* 1.23 (GODEBUG=asynctimerchan=1), where the drains have something to take. *)

InitBuffered == InitWith({TRUE})

NextBuffered ==
    \/ NextReload
    \/ BufferedSteps

SpecBuffered == InitBuffered /\ [][NextBuffered]_vars

(* SpecExclude: notifications for paths that Contain excludes, the hidden *)
(* file of the watched directory and the excluded directory, next to *)
(* notifications for an ordinary file. *)

InitExclude == InitWith({FALSE})

NextExclude ==
    \/ Edit(PathHidden, NoFile)
    \/ \E op \in Ops : Emit(PathHidden, op)
    \/ Emit(DirGit, "Remove")
    \/ Emit(PathGo, "Write")
    \/ Tick
    \/ LoopSteps({"mine"}, {FALSE})
    \/ ReloadSteps

SpecExclude == InitExclude /\ [][NextExclude]_vars

(* SpecFifo: notifications that queue up in the channel while the loop is *)
(* busy with an earlier one. *)

InitFifo == InitWith({FALSE})

NextFifo ==
    \/ \E p \in Paths, op \in Ops : Enqueue(p, op)
    \/ Tick
    \/ LoopSteps({"mine"}, BOOLEAN)
    \/ ReloadSteps

SpecFifo == InitFifo /\ [][NextFifo]_vars

(* SpecReloadErr: reloads with a reload action that returns an error or *)
(* does not. *)

InitReloadErr ==
    /\ containIn = NoContain
    /\ containOut = NoResult
    /\ InitFields({FALSE}, {"nil"}, BOOLEAN)

NextReloadErr ==
    \/ \E p \in Paths : Emit(p, "Write")
    \/ Tick
    \/ LoopSteps({"mine"}, {FALSE})
    \/ ReloadSteps

SpecReloadErr == InitReloadErr /\ [][NextReloadErr]_vars

(* SpecModes: SpecReload with the timer channel of either kind. *)

InitModes == InitWith(BOOLEAN)

NextModes ==
    \/ NextReload
    \/ BufferedSteps

SpecModes == InitModes /\ [][NextModes]_vars

(* SpecReloadFair: SpecReload without the exit signal, where the event *)
(* loop, the runtime's timer and the consumer goroutine each keep running *)
(* and time passes. *)

NextReloadFair ==
    \/ \E p \in Paths : Emit(p, "Write")
    \/ Tick
    \/ LoopSteps({"mine"}, {FALSE})
    \/ ReloadSteps

FairReload ==
    /\ WF_vars(Tick)
    /\ WF_vars(LoopSteps({"mine"}, {FALSE}) \/ SchedStop \/ SchedDrain \/ SchedReset)
    /\ WF_vars(Fire)
    /\ WF_vars(ConsumerTrigger \/ ConsumerReturn)

SpecReloadFair == InitReload /\ [][NextReloadFair]_vars /\ FairReload

(* SpecExitFair: writes of a Go file are reported without end; its handlers *)
(* succeed MaxEvents times at most and fail afterwards; the exit signal is  *)
(* sent at any time.  The goroutine of the loop keeps running, and its      *)
(* select, which picks among the ready cases at random, does not pass over  *)
(* a ready exit signal for ever.                                            *)

\* the results the handlers may still return
HandlerErrs == IF hSched.calls < MaxEvents THEN BOOLEAN ELSE {TRUE}

NextExitFair ==
    \/ Flood(PathGo, "Write")
    \/ Tick
    \/ LoopSteps({"mine"}, HandlerErrs)
    \/ ReloadSteps
    \/ ExitSteps

FairExit ==
    /\ WF_vars(LoopSteps({"mine"}, HandlerErrs) \/ SchedStop \/ SchedDrain \/ SchedReset)
    /\ SF_vars(RecvExit)
    /\ WF_vars(StopStop \/ StopDrain)

SpecExitFair == InitReload /\ [][NextExitFair]_vars /\ FairExit

\* the loop, the reload machinery and the streams of the watcher, which may
\* be closed under the loop
NextStreamsFair ==
    \/ Emit(PathGo, "Write")
    \/ Tick
    \/ LoopSteps({"mine"}, {FALSE})
    \/ ReloadSteps
    \/ StreamSteps

SpecStreamsFair == InitReload /\ [][NextStreamsFair]_vars /\ FairReload

----------------------------------------------------------------------------
(* Properties of the debounce (SpecDebounce) *)

\* the loop reached the debounce decision for the last notification
Decided == hDec.kind \in {"skip", "process"}

C2_RapidEditProcessed ==
    (Decided /\ hDec.rec = "within" /\ hDec.hashDiffers) => hDec.kind = "process"

C2_Witness ==
    /\ hDec.kind = "process"
    /\ hDec.rec = "within"
    /\ hDec.hashDiffers
    /\ pc = "handle"

\* C3: a notification that reaches the debounce decision more than the window
\* after the receipt of the previous processed notification for its path, or
\* for a path never processed, is processed whatever the content.
C3_WellSpacedProcessed ==
    (Decided /\ hDec.prev \in {"none", "beyond"}) => hDec.kind = "process"

C3_Witness ==
    /\ hDec.kind = "process"
    /\ hDec.prev = "beyond"
    /\ hDec.same
    /\ ~hDec.hashDiffers
    /\ pc = "handle"

----------------------------------------------------------------------------
(* Properties of the dispatch (SpecDispatch) *)

\* handleFileEvent has run its loop over all handlers for the event in cur
DispatchedPcs == {"sched_stop", "sched_drain", "sched_reset", "record"}

DispatchDone == pc \in DispatchedPcs

InvokedSet == {hLog.invoked[i] : i \in DOMAIN hLog.invoked}

GoHandlers == {i \in 1..NumHandlers :
                 SlicesContains(FilesEventHandlers[i].SupportedExtensions, ExtGo)}

Applicable(i) ==
    /\ SlicesContains(FilesEventHandlers[i].SupportedExtensions, FilepathExt(cur.Name))
    /\ (~cur.isDeleteEvent /\ FilepathExt(cur.Name) = ExtGo) => hLog.oracle[i] = "mine"

RECURSIVE ApplicableUpTo(_)
ApplicableUpTo(n) ==
    IF n = 0 THEN <<>>
    ELSE IF Applicable(n) THEN Append(ApplicableUpTo(n - 1), n)
         ELSE ApplicableUpTo(n - 1)

\* C8: for every processed event, the handlers invoked are exactly the
\* applicable ones, each once, in registration order, whatever the results of
\* the earlier ones.
C8_NoShortCircuit ==
    DispatchDone => hLog.invoked = ApplicableUpTo(NumHandlers)

\* both handlers ran although the first failed; and on a stylesheet the
\* handler that does not support it is passed over
C8_Witness ==
    /\ pc = "record"
    /\ hLog.invoked = <<1, 2>>
    /\ hLog.result[1] = "err"
    /\ hLog.result[2] = "ok"

----------------------------------------------------------------------------
(* Properties of the reload timer (SpecReload, SpecReloadFair) *)

SchedPcs == {"sched_stop", "sched_drain", "sched_reset"}

\* every reload that is going to happen has happened
Quiescent == pc = "select" /\ Pending = 0 /\ consumer = "recv"

C6_DistinctBursts ==
    (hSched.spaced /\ ~hExit.handled /\ pc \notin SchedPcs)
       => hSched.calls = reloadCount + Pending

\* three dispatches, three reloads
C6_Witness ==
    /\ hSched.spaced
    /\ hSched.calls = 3
    /\ reloadCount = 3
    /\ Quiescent

\* C10 as stated: when the exit signal is handled while a firing is due and
\* not yet received by the consumer, the reload has been invoked exactly once
\* when the loop returns.
C10_ShutdownDrain ==
    (pc = "done" /\ hExit.due) => hExit.dueReloads = 1

\* C11: when stopReload stops a timer that is armed and whose deadline has
\* not passed, the timer stays disarmed and no reload is invoked afterwards
\* for it: the only reload that can still come is one whose firing the
\* consumer already held.
C11_ArmedTimerDropped ==
    hExit.armed =>
       /\ hExit.late <= (IF hExit.held THEN 1 ELSE 0)
       /\ ~reloadTimer.armed
       /\ timerC = 0
       /\ pc = "done"

\* the loop returned having stopped an armed timer, its deadline has passed
\* since, and the one reload of the run is the one of an earlier call
C11_Witness ==
    /\ pc = "done"
    /\ hExit.armed
    /\ hSched.calls = 2
    /\ hSched.sinceCall > wait
    /\ reloadCount = 1
    /\ hExit.late = 0
    /\ consumer = "recv"

\* C12: before the first call of scheduleReload no reload is invoked, and
\* when stopReload finds the timer idle, its channel empty and no firing in
\* the hands of the consumer, no reload is invoked from then on.
C12_NoSpuriousReload ==
    /\ hSched.calls = 0 => (reloadCount = 0 /\ Pending = 0)
    /\ hExit.idle => (hExit.late = 0 /\ Pending = 0)
    /\ pc \notin SchedPcs => reloadCount + Pending <= hSched.calls

\* the exit signal was handled before any dispatch, and after a consumed firing
C12_Witness ==
    /\ pc = "done"
    /\ hExit.idle
    /\ hSched.calls = 1
    /\ reloadCount = 1
    /\ consumer = "recv"

\* C20 as stated: when the loop has returned after the exit signal the
\* consumer neither holds a firing nor is inside the reload action.
C20_NoInflightReload ==
    pc = "done" => consumer \notin {"trigger", "reloading"}

----------------------------------------------------------------------------
(* More properties of the debounce (SpecDebounce) *)

\* the stored fingerprint or the existence of a record differs after the step
RecordTouched(p) ==
    \/ lastEventInfo'[p].exists # lastEventInfo[p].exists
    \/ lastEventInfo'[p].lastHash # lastEventInfo[p].lastHash

\* the step is the one that returns from dispatch to the select
RecordStep == pc = "record" /\ pc' = "select"

\* C18: a record is written only by the step that follows the return of
\* handleFileEvent, for the path of the event, with the time the event was
\* received and the fingerprint of the content as it is then; and a
\* notification within the window whose bytes have not changed since the
\* record was written is skipped, even if they changed during dispatch.
C18_RecordAfterDispatch ==
    /\ [][ /\ \A p \in Paths : RecordTouched(p) => (RecordStep /\ p = cur.Name)
           /\ RecordStep =>
                 lastEventInfo'[cur.Name] =
                    [exists |-> TRUE, lastTime |-> now,
                     lastHash |-> calculateFileHash(cur.Name)] ]_vars
    /\ []((Decided /\ hDec.rec = "within" /\ hDec.sameSinceRecord)
             => hDec.kind = "skip")

\* the bytes changed while the previous event was in dispatch, not after its
\* record was written, and the next notification was skipped
C18_Witness ==
    /\ hDec.kind = "skip"
    /\ ~hDec.same
    /\ hDec.sameSinceRecord
    /\ ~hDec.unreadable

\* C19 as stated: a notification received within the window while the file
\* cannot be read is processed, whatever the stored record.
C19_UnreadableProcessed ==
    (Decided /\ hDec.rec = "within" /\ hDec.unreadable) => hDec.kind = "process"

----------------------------------------------------------------------------
(* Properties of the directory events (SpecDirs) *)

\* handleDirectoryEvent has returned for the last notification received
DirHandled == pc = "select" /\ hDir.root # <<>>

\* the directories at and below the root of the last walk, when it was made
Subtree == {e \in hDir.tree : Below(hDir.root, e)}

\* how many times path was added to the watcher by the last walk
Registrations(path) == Cardinality({i \in DOMAIN hDir.adds : hDir.adds[i] = path})

\* the directories of the subtree that the walk can reach: every directory
\* between the root and them could be read
Reachable ==
    {e \in Subtree : \A k \in Len(hDir.root)..(Len(e) - 1) :
                        SubSeq(e, 1, k) \in hDir.tree \ hDir.unreadable}

FolderCall(event) ==
    [folderName |-> GetFileName(hDec.Name), path |-> hDec.Name, event |-> event]

\* C16 as stated: a configured folder observer is notified of every
\* surviving directory creation and of every directory removal, with the
\* derived name, the full path and the event kind; an error it returns is
\* logged and neither prevents the registration nor stops the loop.
C16_FolderObserverNotified ==
    (FolderEvents # "nil" /\ pc = "select" /\ hDec.Name \in Dirs) =>
       /\ (hDec.kind = "directory" /\ hDir.eventType = "create") =>
             /\ hDir.calls = << FolderCall("create") >>
             /\ hDir.folderErr =>
                   (hDir.logged = 1 /\ (~hDir.addErr => Registrations(hDir.root) = 1))
       /\ (hDec.delete /\ hDec.kind \in {"process", "skip"} /\ hDec.Name \notin dirs) =>
             hDir.calls = << FolderCall("remove") >>

----------------------------------------------------------------------------
(* Properties of the filter of lines 55-61 (SpecDiscard) *)

\* the loop receives a notification in this step
Receives == pc = "select" /\ events # <<>> /\ events' = Tail(events)

\* the notification at the head of the stream is not a delete and its path
\* does not exist or is excluded
HeadFiltered ==
    /\ ToLower(OpString(Head(events).Op)) \notin {"remove", "delete"}
    /\ (~Exists(Head(events).Name) \/ Contain(Head(events).Name))

\* C15: the step that receives a non-delete event whose path fails stat or
\* is excluded invokes no handler and does not enter dispatch, does not
\* notify the folder observer, registers no directory, leaves every debounce
\* record as it is and does not touch the reload timer.
C15_DiscardLeavesNoTrace ==
    [][ (Receives /\ HeadFiltered) =>
           /\ pc' = "select"
           /\ cur' = cur
           /\ hLog' = hLog
           /\ folderLog' = folderLog
           /\ watched' = watched
           /\ hDir' = NoDir
           /\ lastEventInfo' = lastEventInfo
           /\ reloadTimer' = reloadTimer
           /\ timerC' = timerC
           /\ hSched' = hSched ]_vars

\* an event for the excluded directory, which exists, was discarded while a
\* record exists, the timer is armed and a directory is watched
C15_Witness ==
    /\ hDec.kind = "discard"
    /\ hDec.Name = DirGit
    /\ DirGit \in dirs
    /\ pc = "select"
    /\ lastEventInfo[PathGo].exists
    /\ reloadTimer.armed
    /\ watched # {}
    /\ folderLog > 0

----------------------------------------------------------------------------
(* Properties of the exclusion predicate (SpecContain) *)

\* a segment is hidden or is one of the unobserved names
SegmentExcluded(seg, unobserved) ==
    \/ (Len(seg) > 0 /\ Head(seg) = ".")
    \/ seg \in unobserved

\* C14: Contain(path) is true exactly when one of the segments the path is
\* made of, joined with "/" or "\", starts with "." or equals an unobserved
\* name; it answers every row of the table of TestContain as the table
\* expects; and on a path whose segments are given it agrees with the
\* predicate the event loop uses.
C14_ExclusionPredicate ==
    containOut.called =>
       IF containIn.row # 0
       THEN containOut.result = TestContain[containIn.row].expected
       ELSE /\ containOut.result =
                  (\E i \in DOMAIN containIn.segs :
                       SegmentExcluded(containIn.segs[i], containIn.unobserved))
            /\ containIn.unobserved = UnobservedFiles =>
                  containOut.result = Contain(containIn.segs)

\* with only ".git" unobserved, a path of three segments joined with "\" whose
\* middle segment is "my.git" and whose other segments are ordinary is not
\* excluded
C14_Witness ==
    /\ containOut.called
    /\ ~containOut.result
    /\ containIn.segs = <<SegTest, SegMyGit, SegMain>>
    /\ containIn.path = Join(containIn.segs, <<"\\", "\\">>)
    /\ containIn.unobserved = {SegGit}

----------------------------------------------------------------------------
(* Properties of the exit (SpecExitFair) *)

\* C17: once the exit signal is sent the loop reaches its return, having
\* closed the notification source and called stopReload, also while events
\* never stop waiting on the stream; and the step that takes the exit signal
\* is taken at the select, with no event in dispatch and every record of a
\* dispatched event written.
C17_ExitTerminates ==
    /\ exitSent ~> pc = "done"
    /\ [](pc = "done" => (hExit.handled /\ hExit.stopCalled /\ events = <<>>))
    /\ [][ (hExit'.handled /\ ~hExit.handled) =>
              /\ pc = "select"
              /\ cur = NoEvent
              /\ \A p \in Names : hProc[p].age >= 0 => lastEventInfo[p].exists ]_vars

\* the exit signal was sent during a dispatch, was taken while an event was
\* waiting, and the loop has returned
C17_Witness ==
    /\ pc = "done"
    /\ hExit.busy
    /\ hExit.waiting
    /\ lastEventInfo[PathGo].exists

----------------------------------------------------------------------------
(* Properties of the mutex and of the firings (SpecModes) *)

\* the reload action is executing, in the consumer goroutine or in stopReload
Reloading == consumer = "reloading" \/ pc = "stop_reloading"

\* the steps of the loop inside scheduleReload and stopReload
LockedSteps ==
    SchedStop \/ SchedDrain \/ SchedReset \/ StopStop \/ StopDrain \/ StopTrigger
       \/ StopReturn

\* C21 as stated: no thread holds reloadMutex while the reload action
\* executes.
C21_MutexFreeDuringReload == Reloading => reloadMutex = "free"

\* C21, amended: the goroutine that executes the reload action does not hold
\* reloadMutex (the consumer never locks it, stopReload unlocks it before the
\* call); only the loop holds it, and only inside scheduleReload and
\* stopReload, also while the consumer executes the reload action; whenever
\* the loop is about to lock it the mutex is free, and inside scheduleReload
\* and stopReload the loop always has a step to take.
C21_MutexDiscipline ==
    /\ reloadMutex \in {"free", "loop"}
    /\ pc \in {"stop_trigger", "stop_reloading"} => reloadMutex = "free"
    /\ reloadMutex = "loop" => pc \in {"sched_drain", "sched_reset", "stop_drain"}
    /\ pc \in {"sched_stop", "stop_stop", "stop_reloading"} => reloadMutex = "free"
    /\ pc \in SchedPcs \cup (ExitPcs \ {"done"}) => ENABLED LockedSteps

\* stopReload is executing the reload action while the consumer executes an
\* earlier one
C21_Witness ==
    /\ pc = "stop_reloading"
    /\ consumer = "reloading"
    /\ reloadMutex = "free"

\* the reload action is invoked in this step
ReloadInvoked == reloadCount' = reloadCount + 1

\* C22: the reload action is never invoked less than the reload delay after
\* its previous invocation, however the loop and the consumer goroutine
\* interleave.
C22_OneReloadPerWindow ==
    [][ReloadInvoked => (hSched.sinceReload < 0 \/ hSched.sinceReload >= wait)]_vars

\* firings taken and not yet turned into a reload or thrown away
InHand ==
    (IF consumer = "trigger" THEN 1 ELSE 0) + (IF pc = "stop_trigger" THEN 1 ELSE 0)

\* C23: the reload action is invoked at most as often as scheduleReload was
\* called (with the buffered channel of older builds the firing of the
\* NewTimer(0) of Start may add one), every invocation uses up one firing it
\* took, and every firing is taken at most once: by the consumer, by the drain
\* of scheduleReload or by the drain of stopReload.
C23_NoDoubleFiring ==
    /\ reloadCount <= hSched.calls + (IF asynctimerchan THEN 1 ELSE 0)
    /\ hSched.taken <= hSched.fired
    /\ hSched.fired = hSched.taken + timerC
    /\ reloadCount + InHand <= hSched.taken

\* two calls, two firings, two reloads
C23_Witness ==
    /\ ~asynctimerchan
    /\ hSched.calls = 2
    /\ hSched.fired = 2
    /\ hSched.taken = 2
    /\ reloadCount = 2

----------------------------------------------------------------------------
(* Further properties of dispatch (SpecDispatch) *)

\* the steps of the loop between the receipt of an event and its record
EventSteps ==
    HandlerStep(OracleAnswers, BOOLEAN) \/ FinishHandle \/ SchedStop \/ SchedDrain
       \/ SchedReset \/ Record

C25_ExcludedNeverDispatched ==
    (pc \in {"handle"} \cup DispatchedPcs /\ Contain(cur.Name))
       => (hLog.invoked = <<>> /\ hLog.scheduled = 0)

\* C26: for a processed remove event on a .go file the oracle is not
\* consulted for any handler, every handler that supports .go is invoked, and
\* scheduleReload is called iff one of them returned no error.
C26_DeleteBypassesOracle ==
    (pc \in {"handle"} \cup DispatchedPcs
       /\ cur.isDeleteEvent /\ FilepathExt(cur.Name) = ExtGo)
    => /\ \A i \in 1..NumHandlers : hLog.oracle[i] = "notasked"
       /\ \A i \in GoHandlers : i < idx => i \in InvokedSet
       /\ DispatchDone =>
            /\ InvokedSet = GoHandlers
            /\ (hLog.scheduled = 1 <=> \E i \in GoHandlers : hLog.result[i] = "ok")

\* a removed .go file: both handlers were invoked without the oracle, the
\* first failed, the second succeeded and the reload is being scheduled
C26_Witness ==
    /\ pc = "sched_stop"
    /\ cur.isDeleteEvent
    /\ FilepathExt(cur.Name) = ExtGo
    /\ hLog.oracle = [i \in 1..NumHandlers |-> "notasked"]
    /\ hLog.invoked = <<1, 2>>
    /\ hLog.result[1] = "err"
    /\ hLog.result[2] = "ok"
    /\ hLog.scheduled = 1

----------------------------------------------------------------------------
(* Further properties of directory events (SpecDiscard, SpecDirs) *)

\* the loop receives a non-delete event whose target is an existing directory
DirEventReceived ==
    /\ pc = "select"
    /\ events # <<>>
    /\ events' = Tail(events)
    /\ Head(events).Name \in dirs
    /\ ToLower(OpString(Head(events).Op)) \notin {"remove", "delete"}

\* the loop returns from handleDirectoryEvent
DirEventHandled == pc = "dir" /\ pc' # "dir"

\* what the file pipeline would change: the invocation log and the success
\* flags, the debounce records, the timer and the calls of scheduleReload
FilePipelineUntouched ==
    /\ UNCHANGED <<hLog, idx, processedSuccessfully, atLeastOneGoHandlerSucceeded>>
    /\ UNCHANGED lastEventInfo
    /\ UNCHANGED <<reloadTimer, timerC, reloadMutex>>
    /\ hSched'.calls = hSched.calls

\* C27: a non-delete event for an existing directory is discarded or handed to
\* handleDirectoryEvent without a debounce decision, and from its receipt to
\* the return of handleDirectoryEvent the loop invokes no handler, leaves
\* every debounce record alone and does not call scheduleReload or touch the
\* timer; the loop then waits for the next event.
C27_DirectoriesBypassPipeline ==
    [][ /\ DirEventReceived =>
              /\ hDec'.kind \in {"directory", "discard"}
              /\ pc' = (IF hDec'.kind = "directory" THEN "dir" ELSE "select")
              /\ FilePipelineUntouched
        /\ DirEventHandled => (pc' = "select" /\ FilePipelineUntouched) ]_vars

\* a directory event was handled while the timer of an earlier file event was
\* counting down; the directory has no debounce record
C27_Witness ==
    /\ pc = "select"
    /\ hDec.kind = "directory"
    /\ hDir.root = DirPkg
    /\ reloadTimer.armed
    /\ reloadTimer.when = 25
    /\ ~lastEventInfo[DirPkg].exists
    /\ lastEventInfo[PathGo].exists

\* the directories below an excluded directory of the subtree of the last walk
BelowExcluded ==
    {e \in hDir.tree : \E d \in Subtree : Contain(d) /\ Below(d, e)}

\* C28: no path that handleDirectoryEvent adds to the watcher is excluded by
\* Contain; no directory at or below an excluded directory of the walked
\* subtree is registered; and when the registration of the created root
\* fails, nothing is registered.
C28_ExcludedNeverRegistered ==
    /\ \A i \in DOMAIN hDir.adds : ~Contain(hDir.adds[i])
    /\ \A w \in watched : ~Contain(w)
    /\ DirHandled => \A e \in BelowExcluded : Registrations(e) = 0 /\ e \notin watched
    /\ hDir.addErr => hDir.adds = <<>>

\* src is created with pkg and .git/hooks in it (pkg/a is gone): src and pkg
\* are registered, .git and .git/hooks are not
C28_Witness ==
    /\ DirHandled
    /\ hDir.eventType = "create"
    /\ hDir.root = DirSrc
    /\ hDir.tree = {DirSrc, DirPkg, DirGit, DirGitHooks}
    /\ hDir.adds = <<DirSrc, DirPkg>>
    /\ BelowExcluded = {DirGit, DirGitHooks}

----------------------------------------------------------------------------
(* Properties of the order of processing (SpecFifo) *)

\* the loop takes a notification from the channel in this step
Received == events # <<>> /\ events' = Tail(events)

\* C29: the loop takes the notifications in the order of their delivery, and
\* only when it is done with the previous one: every handler invocation is a
\* step of the loop for the event it holds, one at a time, the record of that
\* event is written before the next notification is taken, and nothing is
\* invoked or decided for a notification that waits in the channel.
C29_FifoNonOverlapping ==
    [][ /\ events' # events =>
              \/ Received
              \/ \E e \in [Name : Names, Op : Ops] : events' = Append(events, e)
        /\ Received =>
              /\ pc = "select" /\ cur = NoEvent /\ idx = 0
              /\ hDec'.Name = Head(events).Name
              /\ hDec'.delete = (Head(events).Op = "Remove")
              /\ hDec.kind = "process" => lastEventInfo[hDec.Name].exists
              /\ pc' = "handle" => (cur'.Name = Head(events).Name /\ hLog' = NoLog)
        /\ hLog'.invoked # hLog.invoked =>
              \/ Received
              \/ /\ pc = "handle" /\ pc' = "handle" /\ cur' = cur
                 /\ cur.Name = hDec.Name
                 /\ \E i \in 1..NumHandlers : hLog'.invoked = Append(hLog.invoked, i)
        /\ hDec' # hDec => Received ]_vars

\* the loop is invoking the handlers for one file while notifications for the
\* other file and for this one wait in the channel, in that order
C29_Witness ==
    /\ pc = "handle"
    /\ cur.Name = PathGo
    /\ hLog.invoked = <<1>>
    /\ Len(events) = 2
    /\ events[1].Name = PathCss
    /\ events[2].Name = PathGo

----------------------------------------------------------------------------
(* Properties of the reload action's errors (SpecReloadErr) *)

\* h.BrowserReload returns to the consumer goroutine in this step
ReloadReturned == consumer = "reloading" /\ consumer' # "reloading"

\* C30 as stated: when the reload action returns an error, the error is given
\* to the logger, the consumer goroutine waits for the next firing and the
\* loop goes on.
C30_ReloadErrorLogged ==
    [][ (ReloadReturned /\ hSched.reloadErr) =>
           /\ hSched'.reloadLogged = hSched.reloadLogged + 1
           /\ consumer' = "recv"
           /\ pc' = pc ]_vars

----------------------------------------------------------------------------
(* Properties of skipped notifications and of the records (SpecDebounce) *)

\* no event of path p is between its receipt and its record
Settled(p) == pc = "select" \/ cur.Name # p

\* the notification at the head of the queue is a write of an existing file
\* of path p whose bytes match the fingerprint of its record
NextRepeats(p) ==
    /\ events # <<>>
    /\ Head(events) = [Name |-> p, Op |-> "Write"]
    /\ Exists(p)
    /\ lastEventInfo[p].exists
    /\ lastEventInfo[p].lastHash = calculateFileHash(p)

\* C31: the step that skips a notification leaves every record as it is, and
\* the time of the record of a path is the time its last processed
\* notification was received, whatever was skipped since; so the window is
\* measured from the last processed notification and is not extended by the
\* skipped ones.
C31_SkipKeepsRecord ==
    /\ [][ (Received /\ hDec'.kind = "skip") => UNCHANGED lastEventInfo ]_vars
    /\ [](\A p \in Paths :
            (Settled(p) /\ lastEventInfo[p].exists)
               => lastEventInfo[p].lastTime = hProc[p].age)

\* a notification of PathGo was skipped; the next one repeats the same bytes
\* and will be processed, because the record is older than the window
C31_Witness ==
    /\ pc = "select"
    /\ hDec.kind = "skip"
    /\ hDec.Name = PathGo
    /\ NextRepeats(PathGo)
    /\ ShouldProcess(PathGo)

----------------------------------------------------------------------------
(* Properties of the streams of the watcher (SpecStreamsFair) *)

\* the loop has returned because a stream of the watcher was closed
ReturnedOnClosure == pc = "returned"

\* a step that receives an error value from the open error stream
ErrorReceived == streams'.errors < streams.errors

\* C33: when the event stream or the error stream is closed the loop logs
\* once and returns without closing the watcher and without stopReload, so
\* that every firing pending at the return still becomes one reload after
\* it; an error value received on the open error stream changes nothing else
\* and leaves the loop in its select.
C33_ClosureLeavesScheduler ==
    /\ [](ReturnedOnClosure =>
            /\ hExit.returned \in {"Events", "Errors"}
            /\ streams[hExit.returned] = "closed"
            /\ hExit.logs = 1
            /\ ~hExit.stopCalled /\ ~hExit.handled
            /\ reloadCount + Pending = hExit.owing)
    /\ [][ (pc' = "returned" /\ pc # "returned") =>
              (pc = "select" /\ UNCHANGED <<streams, timerVars, consumer, reloadCount>>) ]_vars
    /\ [][ ErrorReceived =>
              (pc = "select" /\ UNCHANGED <<progVars, timerVars, consumer, reloadCount,
                                            events, fs, hLog, hExit>>) ]_vars
    /\ ReturnedOnClosure ~> (Pending = 0 /\ consumer = "recv" /\ reloadCount = hExit.owing)

\* the event stream was closed with the timer armed; the timer fired and the
\* reload was invoked after the loop had returned
C33_Witness ==
    /\ ReturnedOnClosure
    /\ hExit.returned = "Events"
    /\ hExit.armed
    /\ hExit.owing = 1
    /\ reloadCount = 1
    /\ consumer = "recv"

----------------------------------------------------------------------------
(* Properties of the records of different paths (SpecDispatch) *)

\* the record of path p is changed otherwise than by growing older
Rewritten(p) ==
    /\ lastEventInfo'[p] # lastEventInfo[p]
    /\ \/ ~lastEventInfo[p].exists
       \/ lastEventInfo'[p] # [lastEventInfo[p] EXCEPT !.lastTime = Older(@)]

\* the decision that the record of p and the bytes of p call for
OwnDecision(p) ==
    IF /\ lastEventInfo[p].exists
       /\ lastEventInfo[p].lastTime <= debounceWindow
       /\ lastEventInfo[p].lastHash = calculateFileHash(p)
    THEN "skip"
    ELSE "process"

\* C34: the record of a path is rewritten only by the step that ends the
\* dispatch of an event of that path; that step writes the record of its own
\* path, whatever the handlers did, and no other; and the decision for a
\* notification of P is the one the record of P and the bytes of P call for,
\* whatever happened to other paths.
C34_PathsIndependent ==
    /\ [][ \A p \in Paths : Rewritten(p) => (RecordStep /\ cur.Name = p) ]_vars
    /\ [][ RecordStep =>
              /\ lastEventInfo'[cur.Name].exists
              /\ lastEventInfo'[cur.Name].lastTime = now
              /\ \A q \in Names \ {cur.Name} : lastEventInfo'[q] = lastEventInfo[q] ]_vars
    /\ [][ (Received /\ hDec'.kind \in {"skip", "process"})
              => hDec'.kind = OwnDecision(hDec'.Name) ]_vars
    /\ []((pc = "select" /\ hDec.kind = "process") => lastEventInfo[hDec.Name].exists)

\* the stylesheet was processed, then the Go file, which no handler owned
\* and whose record was written all the same; the next notification of the
\* stylesheet, within its own window, is skipped
C34_Witness ==
    /\ pc = "select"
    /\ hDec.kind = "skip"
    /\ hDec.Name = PathCss
    /\ lastEventInfo[PathGo].exists
    /\ lastEventInfo[PathGo].lastTime < lastEventInfo[PathCss].lastTime
    /\ hLog.oracle = <<"notmine", "notmine">>
    /\ hLog.invoked = <<>>

====
